---- MODULE Spec2Model ----
(***************************************************************************)
(* A model of container::trie (src/CXX/libtriexx/trie.hxx): a path-        *)
(* compressed radix tree over 4-bit units.  Nodes live in a heap indexed   *)
(* by node ids (addresses); items live in m_items, indexed by item ids     *)
(* (std::list iterators).  A node's key pointer is the id of the item      *)
(* whose key bytes it points at; the bytes behind a pointer whose item has *)
(* been erased are whatever the freed memory holds.                        *)
(***************************************************************************)
EXTENDS Integers, Sequences, FiniteSets, TLC

(* ------------------------------ bounds --------------------------------- *)

\* most keys the caller has stored at once
MaxItems == 4

\* most calls of insert and erase made once a freed key buffer has been
\* overwritten, the erase that freed it included
MaxReuseCalls == 3

\* The keys items are inserted with, as byte sequences: the empty key, keys
\* that differ in the high and in the low half of a byte, and keys that are
\* prefixes of others.
\*   "", 10, 17, 1f, 20, 10 10, 10 17, 10 20, 17 10, 10 10 10
Keys ==
    {<< >>, <<16>>, <<23>>, <<31>>, <<32>>,
     <<16, 16>>, <<16, 23>>, <<16, 32>>, <<23, 16>>, <<16, 16, 16>>}

\* The keys looked up: those above, and keys no item is inserted with.
\*   2f, 10 1f, 10 2f, 17 17, 20 10
LookupKeys ==
    Keys \cup {<<47>>, <<16, 31>>, <<16, 47>>, <<23, 23>>, <<32, 16>>}

\* the item values (the int of std::tuple<std::string, int>)
Vals == {13, 25}

\* the value a key is first inserted with
ValOf(key) == IF Len(key) = 1 THEN 25 ELSE 13

\* What a freed key buffer may hold when it is read again, beside the bytes
\* it held when it was freed: 17 17 17, 20 20 20, and 10 20 20, which
\* starts as the keys stored do.
Garbage == {<<23, 23, 23>>, <<32, 32, 32>>, <<16, 32, 32>>}

(* ------------------------------ constants ------------------------------ *)

\* the NULL node pointer
NULL == 0

\* the root node m_root
Root == 1

\* m_items.end()
items_end == 0

\* a NULL key pointer
NullKey == 0

TRIE_KEY_TRACING_STRICT == 0

TRIE_KEY_TRACING_SLOBBY == 1

\* number of branches of a node: 1 << 4
BranchesCnt == 16

(* ------------------------------ state ---------------------------------- *)

VARIABLES
    nodes,       \* the node heap: node id -> node (m_root and all it owns)
    m_items,     \* item id -> [key, val], the live items of the std::list
    freed,       \* item id -> bytes: freed key buffers some node still points at
    KeyTracing,  \* the KeyTracing template argument of this trie
    iter,        \* the caller's iterator (its m_node; NULL is end)
    thrown,      \* the exception the last call threw ("" when none)
    reuse,       \* calls of insert and erase since a freed key buffer was overwritten
    contents     \* key -> value: what the calls so far should have stored

vars == <<nodes, m_items, freed, KeyTracing, iter, thrown, reuse, contents>>

(* ------------------------------ node ----------------------------------- *)

\* std::unique_ptr<node> branches[1 << 4], as the function from the indices
\* of the branches that hold a node to that node; the others hold NULL
NoBranches == [ix \in {} |-> NULL]

\* nod->branches[ix].get()
Branch(nod, ix) == IF ix \in DOMAIN nod.branches THEN nod.branches[ix] ELSE NULL

\* the branches after branches[ix].reset(to) or a move assignment of to
SetBranch(branches, ix, to) ==
    IF to = NULL THEN [jx \in DOMAIN branches \ {ix} |-> branches[jx]]
    ELSE (ix :> to) @@ branches

\* node::node(_item, _key, _qlen, _parent, _br_own, _br_1st = 1, _br_last = 0)
node(_item, _key, _qlen, _parent, _br_own, _br_1st, _br_last) ==
    [item |-> _item, key |-> _key, qlen |-> _qlen, parent |-> _parent,
     branches |-> NoBranches,
     br_own |-> _br_own, br_1st |-> _br_1st, br_last |-> _br_last]

is_leaf(nod) == nod.br_1st > nod.br_last

has_only_son(nod) == nod.br_1st = nod.br_last

br_set(nod, ix_1st, ix_last) == [nod EXCEPT !.br_1st = ix_1st, !.br_last = ix_last]

(* ------------------------------ key bytes ------------------------------ *)

\* The memory behind the key pointers: the keys of the live items, and the
\* freed buffers.
KeyMem(items, fr) == [p \in DOMAIN items |-> items[p].key] @@ fr

\* key[i] read through key pointer p (i counts from 0).  A std::string's
\* data() ends with a 0 byte.
KeyByte(M, p, i) == IF i < Len(M[p]) THEN M[p][i + 1] ELSE 0

\* key[i] of a caller's key
ByteOf(key, i) == IF i < Len(key) THEN key[i + 1] ELSE 0

Hi(byte) == byte \div 16

Lo(byte) == byte % 16

\* get_qpos(key, qpos) of a caller's key
get_qpos(key, qpos) ==
    LET byte == ByteOf(key, qpos \div 2)
    IN  IF qpos % 2 = 1 THEN Lo(byte) ELSE Hi(byte)

\* get_qpos(nod->key, qpos) through a node's key pointer
get_qpos_ptr(M, p, qpos) ==
    LET byte == KeyByte(M, p, qpos \div 2)
    IN  IF qpos % 2 = 1 THEN Lo(byte) ELSE Hi(byte)

(* ------------------------------ trace ---------------------------------- *)

\* position_t: (node, matching quad-bit length, complete-match flag)
position_t(_node, _qlen, _match) == [node |-> _node, qlen |-> _qlen, match |-> _match]

pos_node(pos) == pos.node

pos_qlen(pos) == pos.qlen

pos_match(pos) == pos.match

\* What the walk of trace ends with: a position it returns itself (miss =
\* FALSE), or the node and quad-bit position it hands to the miss action.
Hit(_node, _qlen, _match) == [miss |-> FALSE, node |-> _node, qlen |-> _qlen, match |-> _match]

Miss(_node, _qlen) == [miss |-> TRUE, node |-> _node, qlen |-> _qlen, match |-> FALSE]

RECURSIVE trace_byte(_, _, _, _, _, _, _, _, _)
RECURSIVE trace_branch(_, _, _, _, _, _, _, _, _, _)

\* The body of the for loop of trace for byte i, entered with the local
\* qlen and forward_branch: the branching while loop, then the byte
\* comparison.  N is the node heap, M the key memory, tr the KeyTracing.
trace_branch(N, M, tr, key, len, slob, nod, qlen, i, forward_branch) ==
    LET byte == ByteOf(key, i)
    IN  IF qlen \in {0, 1}
        THEN LET br == Branch(N[nod], IF qlen # 0 THEN Lo(byte) ELSE Hi(byte))
             IN  IF br = NULL
                 THEN IF qlen # 0 /\ Hi(KeyByte(M, N[nod].key, i)) # Hi(byte)
                      THEN Miss(N[nod].parent, 2 * i)
                      ELSE Miss(nod, 2 * i + qlen)
                 ELSE IF tr = TRIE_KEY_TRACING_SLOBBY /\ slob /\ is_leaf(N[br])
                      THEN Hit(br, 2 * len, TRUE)
                      ELSE trace_branch(N, M, tr, key, len, slob, br,
                                        N[br].qlen - 2 * i, i, qlen > 0)
        ELSE LET kb == KeyByte(M, N[nod].key, i)
             IN  IF kb # byte
                 THEN LET parent == IF forward_branch
                                    THEN N[N[nod].parent].parent
                                    ELSE N[nod].parent
                      IN  Miss(parent, 2 * i + (IF Hi(kb) = Hi(byte) THEN 1 ELSE 0))
                 ELSE trace_byte(N, M, tr, key, len, slob, nod, qlen - 2, i + 1)

\* The for loop of trace from byte i on, and what follows the loop.
trace_byte(N, M, tr, key, len, slob, nod, qlen, i) ==
    IF i < len
    THEN trace_branch(N, M, tr, key, len, slob, nod, qlen, i, FALSE)
    ELSE IF qlen = 0
         THEN Hit(nod, 2 * len, N[nod].item # items_end)
         ELSE Miss(N[nod].parent, 2 * len)

\* trace without its call of the miss action
trace(N, M, tr, key, len, slob) == trace_byte(N, M, tr, key, len, slob, Root, 0, 0)

\* search_position(key, len, nod, qlen)
search_position(nod, qlen) == position_t(nod, qlen, FALSE)

\* trace(&trie::search_position, key, len, slob)
trace_search(N, M, tr, key, len, slob) ==
    LET returned(w) == IF w.miss THEN search_position(w.node, w.qlen)
                       ELSE position_t(w.node, w.qlen, w.match)
    IN  returned(trace(N, M, tr, key, len, slob))

(* ------------------------------ iterator ------------------------------- *)

\* an ascent that ends the iteration where it should go on with the next
\* branch of the parent
next_ascend_to_end(N, m_node) == NULL

RECURSIVE next_descend(_, _, _)
RECURSIVE next_ascend(_, _)

\* "Descend to depth" of iterator_base::next, at m_node with branch br_ix
next_descend(N, m_node, br_ix) ==
    IF br_ix <= N[m_node].br_last
    THEN LET nod == Branch(N[m_node], br_ix)
         IN  IF nod # NULL
             THEN IF N[nod].item # items_end THEN nod
                  ELSE next_descend(N, nod, N[nod].br_1st)
             ELSE next_descend(N, m_node, br_ix + 1)
    ELSE next_ascend(N, m_node)

\* "Ascend from depth" of iterator_base::next
next_ascend(N, m_node) ==
    LET br_ix  == N[m_node].br_own + 1
        parent == N[m_node].parent
    IN  IF parent = NULL THEN NULL
        ELSE IF br_ix > N[parent].br_last THEN next_ascend(N, parent)
        ELSE next_descend(N, parent, br_ix)

\* iterator_base::next(): the m_node after it
next(N, m_node) == next_descend(N, m_node, N[m_node].br_1st)

\* iterator_base::iterator_base(_trie, _node): the m_node it ends with
iterator(N, _node) ==
    IF _node # NULL /\ N[_node].item = items_end THEN next(N, _node) ELSE _node

\* trie::begin()
begin(N) == iterator(N, Root)

\* trie::end()
end == NULL

(* ------------------------------ insertion ------------------------------ *)

\* the address operator new gives the next node
NewNode(N) == CHOOSE id \in 1 .. Cardinality(DOMAIN N) + 1 : id \notin DOMAIN N

\* the nodes a node owns through its branches, itself included
RECURSIVE Owned(_, _)
Owned(N, nod) ==
    {nod} \cup UNION {Owned(N, N[nod].branches[ix]) : ix \in DOMAIN N[nod].branches}

\* the heap once the std::unique_ptr holding old has deleted it
Deleted(N, old) ==
    IF old = NULL THEN N ELSE [id \in DOMAIN N \ Owned(N, old) |-> N[id]]

\* a leaf creation that widens the branch indices of nod downwards only
insert_leaf_below(N, len, nod, br_ix) ==
    LET leaf  == NewNode(N)
        old   == Branch(N[nod], br_ix)
        nod1  == IF is_leaf(N[nod])
                 THEN br_set(N[nod], br_ix, br_ix)
                 ELSE [N[nod] EXCEPT
                         !.br_1st  = IF @ > br_ix THEN br_ix ELSE @]
        N1    == (leaf :> node(items_end, NullKey, 2 * len, nod, br_ix, 1, 0))
                 @@ [N EXCEPT ![nod] = [nod1 EXCEPT !.branches = SetBranch(@, br_ix, leaf)]]
    IN  [nodes |-> Deleted(N1, old), pos |-> position_t(leaf, 2 * len, FALSE)]

\* "Create new leaf" of insert_node: the branch indices of nod, then the
\* leaf, whose key is not set yet.
insert_leaf(N, len, nod, br_ix) ==
    LET leaf  == NewNode(N)
        old   == Branch(N[nod], br_ix)
        nod1  == IF is_leaf(N[nod])
                 THEN br_set(N[nod], br_ix, br_ix)
                 ELSE [N[nod] EXCEPT
                         !.br_1st  = IF @ > br_ix THEN br_ix ELSE @,
                         !.br_last = IF @ < br_ix THEN br_ix ELSE @]
        N1    == (leaf :> node(items_end, NullKey, 2 * len, nod, br_ix, 1, 0))
                 @@ [N EXCEPT ![nod] = [nod1 EXCEPT !.branches = SetBranch(@, br_ix, leaf)]]
    IN  [nodes |-> Deleted(N1, old), pos |-> position_t(leaf, 2 * len, FALSE)]

\* insert_node(key, len, nod, qlen)
insert_node(N, M, key, len, nod, qlen) ==
    LET br_ix   == get_qpos(key, N[nod].qlen)
        br_node == Branch(N[nod], br_ix)
    IN  IF br_node # NULL
        THEN LET in_br_ix == get_qpos_ptr(M, N[br_node].key, qlen)
                 in_node  == NewNode(N)
                 in_rec   == [node(items_end, N[br_node].key, qlen, nod,
                                   br_ix, in_br_ix, in_br_ix)
                                EXCEPT !.branches = SetBranch(@, in_br_ix, br_node)]
                 N1       == (in_node :> in_rec)
                             @@ [N EXCEPT ![br_node].br_own = in_br_ix,
                                          ![br_node].parent = in_node,
                                          ![nod].branches = SetBranch(@, br_ix, in_node)]
             IN  IF qlen = 2 * len
                 THEN [nodes |-> N1, pos |-> position_t(in_node, qlen, FALSE)]
                 ELSE insert_leaf(N1, len, in_node, get_qpos(key, qlen))
        ELSE insert_leaf(N, len, nod, br_ix)

\* the std::list node push_back allocates
NewItem(items, fr) ==
    CHOOSE id \in 1 .. Cardinality(DOMAIN items \cup DOMAIN fr) + 1 :
        id \notin DOMAIN items \cup DOMAIN fr

\* an insert_item that stores the item and leaves the node without it
insert_item_unlinked(N, items, fr, item, nod) ==
    LET id == NewItem(items, fr)
    IN  [nodes |-> N, items |-> (id :> item) @@ items]

\* insert_item(item, nod): the heap and the item list after it
insert_item(N, items, fr, item, nod) ==
    LET id == NewItem(items, fr)
    IN  [nodes |-> [N EXCEPT ![nod].key = id, ![nod].item = id],
         items |-> (id :> item) @@ items]

\* trie::insert(item): the heap, the item list and the iterator returned
insert(N, items, fr, tr, item) ==
    LET returned(pos, put) ==
            [nodes |-> put.nodes, items |-> put.items,
             iter |-> iterator(put.nodes, pos_node(pos)), match |-> pos_match(pos)]
        traced(ins) ==
            returned(ins.pos,
                     IF ~pos_match(ins.pos)
                     THEN insert_item(ins.nodes, items, fr, item, pos_node(ins.pos))
                     ELSE [nodes |-> ins.nodes, items |-> items])
        walked(M, w) ==
            traced(IF w.miss
                   THEN insert_node(N, M, item.key, Len(item.key), w.node, w.qlen)
                   ELSE [nodes |-> N, pos |-> position_t(w.node, w.qlen, w.match)])
    IN  walked(KeyMem(items, fr),
               trace(N, KeyMem(items, fr), tr, item.key, Len(item.key), FALSE))

\* The allocations of an insert, in the order of the calls: the interim
\* node and the leaf of insert_node, the list node of insert_item.
AllocSites == {"in_node", "leaf", "item"}

\* "Set 1st & last branch indices correctly" of insert_node, after which
\* new node(...) of the leaf throws std::bad_alloc: the heap it leaves
insert_leaf_nomem(N, nod, br_ix) ==
    [N EXCEPT ![nod] =
        IF is_leaf(N[nod])
        THEN br_set(N[nod], br_ix, br_ix)
        ELSE [N[nod] EXCEPT
                !.br_1st  = IF @ > br_ix THEN br_ix ELSE @,
                !.br_last = IF @ < br_ix THEN br_ix ELSE @]]

\* insert_node(key, len, nod, qlen) when the allocation at site at throws
\* std::bad_alloc: the heap it leaves, and whether it came to that throw
insert_node_nomem(N, M, key, len, nod, qlen, at) ==
    LET br_ix   == get_qpos(key, N[nod].qlen)
        br_node == Branch(N[nod], br_ix)
    IN  IF br_node # NULL
        THEN IF at = "in_node"
             THEN [nodes |-> N, nomem |-> TRUE]
             ELSE LET in_br_ix == get_qpos_ptr(M, N[br_node].key, qlen)
                      in_node  == NewNode(N)
                      in_rec   == [node(items_end, N[br_node].key, qlen, nod,
                                        br_ix, in_br_ix, in_br_ix)
                                     EXCEPT !.branches = SetBranch(@, in_br_ix, br_node)]
                      N1       == (in_node :> in_rec)
                                  @@ [N EXCEPT ![br_node].br_own = in_br_ix,
                                               ![br_node].parent = in_node,
                                               ![nod].branches = SetBranch(@, br_ix, in_node)]
                  IN  IF qlen = 2 * len
                      THEN [nodes |-> N1, nomem |-> FALSE]
                      ELSE IF at = "leaf"
                           THEN [nodes |-> insert_leaf_nomem(N1, in_node, get_qpos(key, qlen)),
                                 nomem |-> TRUE]
                           ELSE [nodes |-> insert_leaf(N1, len, in_node,
                                                       get_qpos(key, qlen)).nodes,
                                 nomem |-> FALSE]
        ELSE IF at = "leaf"
             THEN [nodes |-> insert_leaf_nomem(N, nod, br_ix), nomem |-> TRUE]
             ELSE [nodes |-> IF at = "in_node" THEN N
                             ELSE insert_leaf(N, len, nod, br_ix).nodes,
                   nomem |-> FALSE]

\* trie::insert(item) when the allocation at site at throws std::bad_alloc:
\* the heap it leaves, and whether the call came to that allocation
insert_nomem(N, items, fr, tr, item, at) ==
    LET walked(M, w) ==
            IF w.miss
            THEN LET thrown_in(ins) ==
                         IF ins.nomem THEN ins
                         ELSE [nodes |-> ins.nodes, nomem |-> at = "item"]
                 IN  thrown_in(insert_node_nomem(N, M, item.key, Len(item.key),
                                                 w.node, w.qlen, at))
            ELSE [nodes |-> N, nomem |-> ~w.match /\ at = "item"]
    IN  walked(KeyMem(items, fr),
               trace(N, KeyMem(items, fr), tr, item.key, Len(item.key), FALSE))

\* trie::find(key, len): the m_node of the iterator returned
find(N, items, fr, tr, key) ==
    LET returned(pos) == IF ~pos_match(pos) THEN end ELSE iterator(N, pos_node(pos))
    IN  returned(trace_search(N, KeyMem(items, fr), tr, key, Len(key), TRUE))

\* trie::lower_bound(key, len)
lower_bound(N, items, fr, tr, key) ==
    trace_search(N, KeyMem(items, fr), tr, key, Len(key), FALSE)

\* an insert(item, pos) that puts the item in before it checks the position
insert_pos_unchecked(N, items, fr, item, pos) ==
    LET put == insert_item(N, items, fr, item, pos_node(pos))
    IN  [nodes |-> put.nodes, items |-> put.items,
         iter |-> IF pos_match(pos) THEN end ELSE iterator(put.nodes, pos_node(pos)),
         thrown |-> IF pos_match(pos)
                    THEN "libtrie++: insert to already occupied position" ELSE ""]

\* trie::insert(item, pos): the heap, the item list, the iterator returned
\* and what it threw
insert_pos(N, items, fr, item, pos) ==
    IF pos_match(pos)
    THEN [nodes |-> N, items |-> items, iter |-> end,
          thrown |-> "libtrie++: insert to already occupied position"]
    ELSE LET nod  == pos_node(pos)
             qlen == pos_qlen(pos)
             returned(to, put) ==
                 [nodes |-> put.nodes, items |-> put.items,
                  iter |-> iterator(put.nodes, to), thrown |-> ""]
             placed(ins) ==
                 returned(pos_node(ins.pos),
                          insert_item(ins.nodes, items, fr, item, pos_node(ins.pos)))
         IN  placed(IF qlen # N[nod].qlen
                    THEN insert_node(N, KeyMem(items, fr), item.key, Len(item.key),
                                     nod, qlen)
                    ELSE [nodes |-> N, pos |-> pos])

(* ------------------------------ deletion ------------------------------- *)

\* a rescan that takes the branch after the emptied one without a look at it
ScanUp_unlooked(branches, ix) == ix

\* for (; NULL == parent->branches[ix].get(); ++ix);
RECURSIVE ScanUp(_, _)
ScanUp(branches, ix) ==
    IF ix \in 0 .. BranchesCnt - 1 /\ ix \notin DOMAIN branches
    THEN ScanUp(branches, ix + 1) ELSE ix

\* for (; NULL == parent->branches[ix].get(); --ix);
RECURSIVE ScanDown(_, _)
ScanDown(branches, ix) ==
    IF ix \in 0 .. BranchesCnt - 1 /\ ix \notin DOMAIN branches
    THEN ScanDown(branches, ix - 1) ELSE ix

\* a leaf removal that keeps the branch indices of a parent left without sons
erase_leaf_stale(N, nod) ==
    IF is_leaf(N[nod]) /\ nod # Root
    THEN LET br_ix  == N[nod].br_own
             parent == N[nod].parent
             gone   == Branch(N[parent], br_ix)
             brs    == SetBranch(N[parent].branches, br_ix, NULL)
             par    == [N[parent] EXCEPT !.branches = brs]
             par1   == IF has_only_son(par) THEN par
                       ELSE IF par.br_1st = br_ix
                            THEN [par EXCEPT !.br_1st = ScanUp(brs, br_ix + 1)]
                       ELSE IF par.br_last = br_ix
                            THEN [par EXCEPT !.br_last = ScanDown(brs, br_ix - 1)]
                       ELSE par
         IN  [nodes |-> Deleted([N EXCEPT ![parent] = par1], gone), nod |-> parent]
    ELSE [nodes |-> N, nod |-> nod]

\* "Empty leaf node shall be removed" of erase: the heap and nod after it
erase_leaf(N, nod) ==
    IF is_leaf(N[nod]) /\ nod # Root
    THEN LET br_ix  == N[nod].br_own
             parent == N[nod].parent
             gone   == Branch(N[parent], br_ix)
             brs    == SetBranch(N[parent].branches, br_ix, NULL)
             par    == [N[parent] EXCEPT !.branches = brs]
             par1   == IF has_only_son(par) THEN br_set(par, 1, 0)
                       ELSE IF par.br_1st = br_ix
                            THEN [par EXCEPT !.br_1st = ScanUp(brs, br_ix + 1)]
                       ELSE IF par.br_last = br_ix
                            THEN [par EXCEPT !.br_last = ScanDown(brs, br_ix - 1)]
                       ELSE par
         IN  [nodes |-> Deleted([N EXCEPT ![parent] = par1], gone), nod |-> parent]
    ELSE [nodes |-> N, nod |-> nod]

\* a removal of the interim node that deletes its only son with it
erase_interim_with_son(N, nod) ==
    IF has_only_son(N[nod]) /\ N[nod].item = items_end /\ nod # Root
    THEN LET parent == N[nod].parent
             br_ix  == N[nod].br_own
             brs    == SetBranch(N[parent].branches, br_ix, NULL)
             par    == [N[parent] EXCEPT !.branches = brs]
             par1   == IF has_only_son(par) THEN br_set(par, 1, 0)
                       ELSE IF par.br_1st = br_ix
                            THEN [par EXCEPT !.br_1st = ScanUp(brs, br_ix + 1)]
                       ELSE IF par.br_last = br_ix
                            THEN [par EXCEPT !.br_last = ScanDown(brs, br_ix - 1)]
                       ELSE par
         IN  [nodes |-> Deleted([N EXCEPT ![parent] = par1], nod), nod |-> parent]
    ELSE [nodes |-> N, nod |-> nod]

\* "Interim node with only son shall be removed" of erase
erase_interim(N, nod) ==
    IF has_only_son(N[nod]) /\ N[nod].item = items_end /\ nod # Root
    THEN LET parent == N[nod].parent
             br_ix  == N[nod].br_own
             son    == Branch(N[nod], N[nod].br_1st)
             gone   == Branch(N[parent], br_ix)
             N0     == [N EXCEPT ![nod].branches = SetBranch(@, N[nod].br_1st, NULL)]
             N1     == [N0 EXCEPT ![parent].branches = SetBranch(@, br_ix, son),
                                 ![son].parent = parent,
                                 ![son].br_own = br_ix]
         IN  [nodes |-> Deleted(N1, gone), nod |-> parent]
    ELSE [nodes |-> N, nod |-> nod]

\* while (items_end == nod->item && nod != &m_root) { nod->key = key; ... }
RECURSIVE rekey(_, _, _)
rekey(N, nod, key) ==
    IF N[nod].item = items_end /\ nod # Root
    THEN rekey([N EXCEPT ![nod].key = key], N[nod].parent, key)
    ELSE N

\* "Interim node without value uses key of its descendant" of erase
erase_rekey(N, nod) ==
    IF ~is_leaf(N[nod]) /\ N[nod].item = items_end /\ nod # Root
    THEN rekey(N, nod, N[Branch(N[nod], N[nod].br_1st)].key)
    ELSE N

\* trie::erase(iter) past the check of the iterator
erase_item(N, items, it) ==
    LET nod  == it
        gone == N[nod].item
        spliced(inter) ==
            [nodes |-> erase_rekey(inter.nodes, inter.nod),
             items |-> [id \in DOMAIN items \ {gone} |-> items[id]],
             iter |-> next(N, it), erased |-> gone, thrown |-> ""]
        pruned(leaf) == spliced(erase_interim(leaf.nodes, leaf.nod))
    IN  pruned(erase_leaf([N EXCEPT ![nod].item = items_end], nod))

\* an erase that returns from the end iterator without throwing
erase_silent(N, items, it) ==
    IF it = end
    THEN [nodes |-> N, items |-> items, iter |-> it, erased |-> items_end,
          thrown |-> ""]
    ELSE erase_item(N, items, it)

\* trie::erase(iter): the heap, the item list, the iterator as erase leaves
\* it, the item it erased and what it threw
erase(N, items, it) ==
    IF it = end
    THEN [nodes |-> N, items |-> items, iter |-> it, erased |-> items_end,
          thrown |-> "libtrie++: attempted erase at end iterator"]
    ELSE erase_item(N, items, it)

\* an erase that takes the item off m_items before it moves the iterator
erase_steps_late(N, items, it) ==
    LET nod  == it
        gone == N[nod].item
        left == [id \in DOMAIN items \ {gone} |-> items[id]]
        at(N1, list, to) == [nodes |-> N1, items |-> list, iter |-> to]
        rest(N1, succ) ==
            LET leaf  == erase_leaf(N1, nod)
                inter == erase_interim(leaf.nodes, leaf.nod)
            IN  <<at(N1, left, succ), at(leaf.nodes, left, succ),
                  at(inter.nodes, left, succ),
                  at(erase_rekey(inter.nodes, inter.nod), left, succ)>>
    IN  <<at(N, items, it), at(N, left, it), at(N, left, next(N, it))>>
        \o rest([N EXCEPT ![nod].item = items_end], next(N, it))

\* trie::erase(iter) past the check of the iterator, statement by statement:
\* the heap, the item list and the iterator on entry, after ++iter, after
\* m_items.erase(nod->item), after nod->item = items_end, after the removal
\* of the empty leaf, after the removal of the interim node with an only
\* son, and after the interim nodes have taken the key of a descendant
erase_steps(N, items, it) ==
    LET nod  == it
        gone == N[nod].item
        left == [id \in DOMAIN items \ {gone} |-> items[id]]
        at(N1, list, to) == [nodes |-> N1, items |-> list, iter |-> to]
        rest(N1, succ) ==
            LET leaf  == erase_leaf(N1, nod)
                inter == erase_interim(leaf.nodes, leaf.nod)
            IN  <<at(N1, left, succ), at(leaf.nodes, left, succ),
                  at(inter.nodes, left, succ),
                  at(erase_rekey(inter.nodes, inter.nod), left, succ)>>
    IN  <<at(N, items, it), at(N, items, next(N, it)), at(N, left, next(N, it))>>
        \o rest([N EXCEPT ![nod].item = items_end], next(N, it))

(* ------------------------------ addresses ------------------------------ *)

\* Nothing the trie does depends on where operator new and the std::list
\* put a node or an item, only on which pointer refers to which object.
\* The state after a call therefore names the nodes 1, 2, ... in the order a
\* depth-first walk from the root meets them, and the items and freed key
\* buffers in the order the walk meets a pointer to them.

RECURSIVE WalkFrom(_, _, _)
WalkFrom(N, nod, left) ==
    IF left = {} THEN << >>
    ELSE LET ix == CHOOSE jx \in left : \A kx \in left : jx <= kx
             br == N[nod].branches[ix]
         IN  <<br>> \o WalkFrom(N, br, DOMAIN N[br].branches)
                  \o WalkFrom(N, nod, left \ {ix})

NodeOrder(N) == <<Root>> \o WalkFrom(N, Root, DOMAIN N[Root].branches)

RECURSIVE Distinct(_, _)
Distinct(seq, seen) ==
    IF seq = << >> THEN << >>
    ELSE IF Head(seq) \in seen THEN Distinct(Tail(seq), seen)
    ELSE <<Head(seq)>> \o Distinct(Tail(seq), seen \cup {Head(seq)})

RECURSIVE Ascending(_)
Ascending(S) ==
    IF S = {} THEN << >>
    ELSE LET least == CHOOSE x \in S : \A y \in S : x <= y
         IN  <<least>> \o Ascending(S \ {least})

RECURSIVE PointersOf(_, _)
PointersOf(N, order) ==
    IF order = << >> THEN << >>
    ELSE <<N[Head(order)].item, N[Head(order)].key>> \o PointersOf(N, Tail(order))

ItemOrder(N, items, fr) ==
    LET all(met) ==
            met \o Ascending((DOMAIN items \cup DOMAIN fr) \ {met[i] : i \in DOMAIN met})
    IN  all(Distinct(PointersOf(N, NodeOrder(N)), {items_end, NullKey}))

IndexIn(seq, x) == CHOOSE i \in DOMAIN seq : seq[i] = x

\* the state [nodes, items, freed, iter] with the nodes renamed in the order
\* nord and the items and freed buffers in the order iord
RenamedIn(N, items, fr, it, nord, iord) ==
    LET rn(x) == IF x = NULL THEN NULL ELSE IndexIn(nord, x)
        ri(x) == IF x = items_end THEN items_end ELSE IndexIn(iord, x)
    IN  [nodes |-> [i \in DOMAIN nord |->
                       LET r == N[nord[i]]
                       IN  [item |-> ri(r.item), key |-> ri(r.key), qlen |-> r.qlen,
                            parent |-> rn(r.parent),
                            branches |-> [ix \in DOMAIN r.branches |-> rn(r.branches[ix])],
                            br_own |-> r.br_own, br_1st |-> r.br_1st,
                            br_last |-> r.br_last]],
         items |-> [i \in {j \in DOMAIN iord : iord[j] \in DOMAIN items} |-> items[iord[i]]],
         freed |-> [i \in {j \in DOMAIN iord : iord[j] \in DOMAIN fr} |-> fr[iord[i]]],
         iter  |-> rn(it)]

\* the state [nodes, items, freed, iter] with the addresses renamed
Renamed(N, items, fr, it) ==
    RenamedIn(N, items, fr, it, NodeOrder(N), ItemOrder(N, items, fr))

(* ------------------------------ operations ----------------------------- *)

\* a function with no argument: the empty m_items
Empty == [x \in {} |-> x]

\* the item ids the key pointers of the heap refer to
KeyRefs(N) == {N[nod].key : nod \in DOMAIN N} \ {NullKey}

\* The freed key buffers that are still pointed at, after a call that left
\* heap N and items: those of fr, and buffer gone (just freed) holding bytes.
StillFreed(N, items, fr, gone, bytes) ==
    LET all == (gone :> bytes) @@ fr
    IN  [p \in (KeyRefs(N) \ DOMAIN items) \cap DOMAIN all |-> all[p]]

\* trie::trie(): m_root(m_items.end(), NULL, 0, NULL, 0)
Init ==
    /\ nodes = <<node(items_end, NullKey, 0, NULL, 0, 1, 0)>>
    /\ m_items = Empty
    /\ freed = Empty
    /\ KeyTracing = TRIE_KEY_TRACING_STRICT
    /\ iter = end
    /\ thrown = ""
    /\ reuse = 0
    /\ contents = Empty

\* iter = trie.insert(std::make_tuple(key, val))
Insert(key, val) ==
    /\ reuse < MaxReuseCalls
    /\ \E r \in {insert(nodes, m_items, freed, KeyTracing, [key |-> key, val |-> val])} :
       \E s \in {IF r.match
                 THEN [nodes |-> nodes, items |-> m_items, freed |-> freed,
                       iter |-> r.iter]
                 ELSE Renamed(r.nodes, r.items,
                              StillFreed(r.nodes, r.items, freed, items_end, << >>),
                              r.iter)} :
           /\ reuse' = IF reuse = 0 \/ r.match THEN reuse ELSE reuse + 1
           /\ nodes' = s.nodes
           /\ m_items' = s.items
           /\ freed' = s.freed
           /\ iter' = s.iter
    /\ thrown' = ""
    /\ contents' = IF key \in DOMAIN contents THEN contents
                   ELSE (key :> val) @@ contents
    /\ UNCHANGED KeyTracing

\* iter = trie.insert(std::make_tuple(key, val), trie.lower_bound(key, len));
\* a throw leaves iter unassigned
InsertAt(key, val) ==
    /\ reuse < MaxReuseCalls
    /\ \E r \in {insert_pos(nodes, m_items, freed, [key |-> key, val |-> val],
                             lower_bound(nodes, m_items, freed, KeyTracing, key))} :
       \E s \in {Renamed(r.nodes, r.items,
                         StillFreed(r.nodes, r.items, freed, items_end, << >>),
                         IF r.thrown = "" THEN r.iter ELSE iter)} :
           /\ reuse' = IF reuse = 0 \/ r.thrown # "" THEN reuse ELSE reuse + 1
           /\ nodes' = s.nodes
           /\ m_items' = s.items
           /\ freed' = s.freed
           /\ iter' = s.iter
           /\ thrown' = r.thrown
           /\ contents' = IF key \in DOMAIN contents \/ r.thrown # "" THEN contents
                          ELSE (key :> val) @@ contents
    /\ UNCHANGED KeyTracing

\* iter = trie.find(key, len)
Find(key) ==
    /\ iter' = find(nodes, m_items, freed, KeyTracing, key)
    /\ thrown' = ""
    /\ UNCHANGED <<nodes, m_items, freed, KeyTracing, reuse, contents>>

\* iter = trie.begin()
Begin ==
    /\ iter' = begin(nodes)
    /\ thrown' = ""
    /\ UNCHANGED <<nodes, m_items, freed, KeyTracing, reuse, contents>>

\* ++iter, for an iterator that is not end
Incr ==
    /\ iter # end
    /\ iter' = next(nodes, iter)
    /\ thrown' = ""
    /\ UNCHANGED <<nodes, m_items, freed, KeyTracing, reuse, contents>>

\* trie.erase(iter) with the end iterator: the throw
EraseEnd ==
    /\ iter = end
    /\ \E r \in {erase(nodes, m_items, iter)} :
           /\ nodes' = r.nodes
           /\ m_items' = r.items
           /\ iter' = r.iter
           /\ thrown' = r.thrown
    /\ UNCHANGED <<freed, KeyTracing, reuse, contents>>

\* trie.erase(it) and iter = it, for an iterator it that is not end; the
\* freed key buffer keeps its bytes or holds others
EraseAt(it) ==
    /\ it # end
    /\ reuse < MaxReuseCalls
    /\ \E r \in {erase(nodes, m_items, it)} :
       \E key \in {m_items[r.erased].key} :
           /\ \E bytes \in IF r.erased \in KeyRefs(r.nodes) THEN {key} \cup Garbage
                           ELSE {key} :
              \E s \in {Renamed(r.nodes, r.items,
                                StillFreed(r.nodes, r.items, freed, r.erased, bytes),
                                r.iter)} :
                  /\ nodes' = s.nodes
                  /\ m_items' = s.items
                  /\ freed' = s.freed
                  /\ iter' = s.iter
                  /\ reuse' = IF reuse = 0 /\ bytes = key THEN 0 ELSE reuse + 1
           /\ thrown' = r.thrown
           /\ contents' = [k \in DOMAIN contents \ {key} |-> contents[k]]
    /\ UNCHANGED KeyTracing

\* trie.erase(iter)
Erase == EraseAt(iter)

\* the caller stores key only while it keeps at most MaxItems keys stored
CanStore(key) ==
    key \in DOMAIN contents \/ Cardinality(DOMAIN contents) < MaxItems

Next ==
    \/ \E key \in Keys :
           \E val \in IF key \in DOMAIN contents THEN Vals ELSE {ValOf(key)} :
               CanStore(key) /\ Insert(key, val)
    \/ \E key \in Keys : Find(key)
    \/ Begin
    \/ Incr
    \/ EraseEnd
    \/ Erase

Spec == Init /\ [][Next]_vars

\* the keys given to insert at the lower bound: 10, 17, 20, 10 10, 10 17
AtKeys == {<<16>>, <<23>>, <<32>>, <<16, 16>>, <<16, 23>>}

\* insert at the lower bound of the key, and the calls that build and take
\* apart the trie it is made on, while m_items holds fewer than MaxItems items
NextAt ==
    /\ Cardinality(DOMAIN m_items) < MaxItems
    /\ \/ \E key \in AtKeys :
              \E val \in IF key \in DOMAIN contents THEN Vals ELSE {ValOf(key)} :
                  CanStore(key) /\ InsertAt(key, val)
       \/ \E key \in AtKeys : CanStore(key) /\ Insert(key, ValOf(key))
       \/ \E key \in AtKeys : Find(key)
       \/ Erase

SpecAt == Init /\ [][NextAt]_vars

\* The string trie of the unit test: "abc", "aBCDE", "acde", "abd", "ab" and
\* "abda" with the values 13, 25, 34, 43, 52 and 64, put in in any order.
abc == <<97, 98, 99>>
aBCDE == <<97, 66, 67, 68, 69>>
acde == <<97, 99, 100, 101>>
abd == <<97, 98, 100>>
ab == <<97, 98>>
abda == <<97, 98, 100, 97>>

StringKeys == {abc, aBCDE, acde, abd, ab, abda}

StringVal(key) ==
    CASE key = abc -> 13 [] key = aBCDE -> 25 [] key = acde -> 34
      [] key = abd -> 43 [] key = ab -> 52 [] key = abda -> 64

\* trie.insert(std::make_tuple(key, val)) of a string not put in yet, into
\* a trie nothing was erased from
StringInsert(key) ==
    /\ key \notin DOMAIN contents
    /\ Cardinality(DOMAIN m_items) = Cardinality(DOMAIN contents)
    /\ freed = Empty
    /\ reuse = 0
    /\ Insert(key, StringVal(key))

\* iter = trie.find("abd"); trie.erase(iter), on the trie of the six strings
StringErase ==
    /\ DOMAIN contents = StringKeys
    /\ \E it \in {find(nodes, m_items, freed, KeyTracing, abd)} : EraseAt(it)

NextString ==
    \/ \E key \in StringKeys : StringInsert(key)
    \/ StringErase
    \/ Begin
    \/ Incr

SpecString == Init /\ [][NextString]_vars

\* trie.insert(std::make_tuple(key, val)) when the allocation at site at
\* throws std::bad_alloc: iter is not assigned
InsertNoMemory(key, val, at) ==
    /\ \E r \in {insert_nomem(nodes, m_items, freed, KeyTracing,
                               [key |-> key, val |-> val], at)} :
           /\ r.nomem
           /\ nodes' = r.nodes
    /\ thrown' = "std::bad_alloc"
    /\ UNCHANGED <<m_items, freed, KeyTracing, iter, reuse, contents>>

\* inserts, of which one may run out of memory, and erases; the exception
\* ends main_impl
NextAlloc ==
    /\ thrown # "std::bad_alloc"
    /\ \/ \E key \in AtKeys : CanStore(key) /\ Insert(key, ValOf(key))
       \/ \E key \in AtKeys, at \in AllocSites :
              CanStore(key) /\ InsertNoMemory(key, ValOf(key), at)
       \/ Begin
       \/ Incr
       \/ Erase

SpecAlloc == Init /\ [][NextAlloc]_vars

\* trie<T, KeyFn, KeyLenFn, TRIE_KEY_TRACING_SLOBBY>::trie()
InitSlobby ==
    /\ nodes = <<node(items_end, NullKey, 0, NULL, 0, 1, 0)>>
    /\ m_items = Empty
    /\ freed = Empty
    /\ KeyTracing = TRIE_KEY_TRACING_SLOBBY
    /\ iter = end
    /\ thrown = ""
    /\ reuse = 0
    /\ contents = Empty

\* the keys given to the slobby trie: 10, 17, 10 10, 10 17, 10 20, 10 10 10
SlobbyKeys == {<<16>>, <<23>>, <<16, 16>>, <<16, 23>>, <<16, 32>>, <<16, 16, 16>>}

\* insert, find and erase on the slobby trie
NextSlobby ==
    \/ \E key \in SlobbyKeys : CanStore(key) /\ Insert(key, ValOf(key))
    \/ \E key \in SlobbyKeys : Find(key)
    \/ Erase

SpecSlobby == InitSlobby /\ [][NextSlobby]_vars

(* ------------------------------ path dump ------------------------------ *)

\* One character of the dump: a hex digit with its value, '[' or ']', or the
\* text of an item, *nod->item, with the value printed.
Hex(digit) == [ch |-> "hex", v |-> digit]

Opening == [ch |-> "[", v |-> 0]

Closing == [ch |-> "]", v |-> 0]

Text(val) == [ch |-> "item", v |-> val]

\* for (i = from; i < to; ++i) prefix_ss << setw(2) << setfill('0') << hex
\*                                        << (unsigned int)nod->key[i]
RECURSIVE HexBytes(_, _, _, _)
HexBytes(M, p, from, to) ==
    IF from >= to THEN << >>
    ELSE <<Hex(Hi(KeyByte(M, p, from))), Hex(Lo(KeyByte(M, p, from)))>>
         \o HexBytes(M, p, from + 1, to)

\* "Serialise condensed part of path to the node" and "Serialise node" of
\* serialise_paths: what is appended to the prefix for nod, entered with
\* the qlen of the parent
serialise_node(N, M, items, nod, qlen) ==
    (IF qlen % 2 = 1 THEN <<Hex(Lo(KeyByte(M, N[nod].key, qlen \div 2)))>>
     ELSE << >>)
    \o HexBytes(M, N[nod].key, (qlen + (qlen % 2)) \div 2, N[nod].qlen \div 2)
    \o (IF N[nod].qlen % 2 = 1
        THEN <<Hex(Hi(KeyByte(M, N[nod].key, N[nod].qlen \div 2)))>>
        ELSE << >>)
    \o <<Opening>>
    \o (IF N[nod].item # items_end THEN <<Text(items[N[nod].item].val)>> ELSE << >>)
    \o <<Closing>>

RECURSIVE serialise_paths(_, _, _, _, _, _)
RECURSIVE serialise_branches(_, _, _, _, _, _)

\* "Serialise branches" of serialise_paths: the lines of the branches with
\* an index of at least i, in the order of the indices
serialise_branches(N, M, items, nod, i, branch_prefix) ==
    IF i >= BranchesCnt THEN << >>
    ELSE (IF Branch(N[nod], i) = NULL THEN << >>
          ELSE serialise_paths(N, M, items, Branch(N[nod], i), N[nod].qlen,
                               branch_prefix))
         \o serialise_branches(N, M, items, nod, i + 1, branch_prefix)

\* serialise_paths(out, iostate, nod, qlen, prefix): the lines written
serialise_paths(N, M, items, nod, qlen, prefix) ==
    LET lines(branch_prefix) ==
            IF DOMAIN N[nod].branches = {} THEN <<branch_prefix>>
            ELSE serialise_branches(N, M, items, nod, 0, branch_prefix)
    IN  lines(prefix \o serialise_node(N, M, items, nod, qlen))

\* trie.serialise_paths(std::cout)
paths(N, items, fr) == serialise_paths(N, KeyMem(items, fr), items, Root, 0, << >>)

(* ------------------------------ observations --------------------------- *)

\* *iter of an iterator that is not end: (key bytes, key length, value),
\* the key bytes being the first key-length bytes behind m_node->key
deref(N, items, fr, it) ==
    LET len == N[it].qlen \div 2
    IN  [key |-> [i \in 1 .. len |-> KeyByte(KeyMem(items, fr), N[it].key, i - 1)],
         len |-> len,
         val |-> items[N[it].item].val]

\* the half-bytes of a key, the high half of each byte first
Nibbles(key) == [q \in 1 .. 2 * Len(key) |-> get_qpos(key, q - 1)]

\* a comes before b in the order of their half-bytes, a prefix first
RECURSIVE NibbleLess(_, _)
NibbleLess(a, b) ==
    IF b = << >> THEN FALSE
    ELSE IF a = << >> THEN TRUE
    ELSE IF Head(a) # Head(b) THEN Head(a) < Head(b)
    ELSE NibbleLess(Tail(a), Tail(b))

KeyLess(a, b) == NibbleLess(Nibbles(a), Nibbles(b))

\* the nodes ++ visits from iterator it until end, at most fuel of them
RECURSIVE Visits(_, _, _)
Visits(N, it, fuel) ==
    IF it = end \/ fuel = 0 THEN << >>
    ELSE <<it>> \o Visits(N, next(N, it), fuel - 1)

\* for (it = begin(); it != end(); ++it)
Traversal(N) == Visits(N, begin(N), Cardinality(DOMAIN N) + 1)

\* the items of m_items with key k
Stored(items, key) == {id \in DOMAIN items : items[id].key = key}

(* ------------------------------ claims --------------------------------- *)

\* C1: in strict mode find of a key that was inserted and not erased since
\* returns an iterator to that key, its length and the value it was inserted
\* with, and find of any other key returns end.
C1_RoundTrip ==
    KeyTracing = TRIE_KEY_TRACING_STRICT =>
        \A key \in LookupKeys :
            LET it == find(nodes, m_items, freed, KeyTracing, key)
            IN  IF key \in DOMAIN contents
                THEN /\ it # end
                     /\ deref(nodes, m_items, freed, it)
                            = [key |-> key, len |-> Len(key), val |-> contents[key]]
                ELSE it = end

\* C2: in strict mode find returns an iterator other than end only to an
\* item whose key has the bytes and the length looked up.
C2_NoFalsePositive ==
    KeyTracing = TRIE_KEY_TRACING_STRICT =>
        \A key \in LookupKeys :
            LET it == find(nodes, m_items, freed, KeyTracing, key)
            IN  it # end =>
                    /\ nodes[it].item \in DOMAIN m_items
                    /\ m_items[nodes[it].item].key = key

\* C3: stepping from begin() to end() visits every stored item once, in
\* strictly increasing order of the half-bytes of the keys, and yields its
\* key bytes, key length and value.
C3_InOrder ==
    LET seq == Traversal(nodes)
    IN  /\ Len(seq) = Cardinality(DOMAIN m_items)
        /\ {nodes[seq[i]].item : i \in DOMAIN seq} = DOMAIN m_items
        /\ \A i \in DOMAIN seq :
               LET item == m_items[nodes[seq[i]].item]
               IN  deref(nodes, m_items, freed, seq[i])
                       = [key |-> item.key, len |-> Len(item.key), val |-> item.val]
        /\ \A i, j \in DOMAIN seq :
               i < j => KeyLess(m_items[nodes[seq[i]].item].key,
                                m_items[nodes[seq[j]].item].key)

\* the nodes that carry an item: where an iterator that is not end can be
ItemNodes(N) == {nod \in DOMAIN N : N[nod].item # items_end}

\* node nod hangs in the tree under the root
Linked(N, nod) == \E i \in DOMAIN NodeOrder(N) : NodeOrder(N)[i] = nod

\* C4: insert of an item whose key is stored changes neither the nodes nor
\* m_items, whatever value the item has, reports the match and returns the
\* iterator at the stored item, which keeps its value.
C4_InsertStoredIsNoOp ==
    \A key \in Keys : \A val \in Vals :
        Stored(m_items, key) # {} =>
            LET r == insert(nodes, m_items, freed, KeyTracing,
                            [key |-> key, val |-> val])
            IN  /\ r.match
                /\ r.nodes = nodes
                /\ r.items = m_items
                /\ r.iter # end
                /\ nodes[r.iter].item \in Stored(m_items, key)

\* C5: erase(iter) of an iterator that is not end leaves iter where ++iter
\* would have put it, and that node, if not end, still hangs in the tree
\* and carries the same item with the same key and value.
C5_EraseAdvances ==
    \A it \in ItemNodes(nodes) :
        LET r    == erase(nodes, m_items, it)
            succ == next(nodes, it)
        IN  /\ r.iter = succ
            /\ succ # end =>
                   /\ succ \in DOMAIN r.nodes
                   /\ Linked(r.nodes, succ)
                   /\ r.nodes[succ].item = nodes[succ].item
                   /\ r.nodes[succ].item \in DOMAIN r.items
                   /\ r.nodes[succ].key = nodes[succ].key
                   /\ r.nodes[succ].qlen = nodes[succ].qlen
                   /\ r.items[r.nodes[succ].item] = m_items[nodes[succ].item]

\* a state erase(iter) has left: the key of the erased item is still pointed
\* at and the iterator stands at the item that came after it
C5_Erased ==
    /\ freed # Empty
    /\ reuse = 0
    /\ iter # end
    /\ \E p \in DOMAIN freed : KeyLess(freed[p], m_items[nodes[iter].item].key)

\* what *it yields for each node of a sequence of nodes
Yields(N, items, fr, seq) == [i \in DOMAIN seq |-> deref(N, items, fr, seq[i])]

\* (key, length, value) of a string of the unit test
StringItem(key) == [key |-> key, len |-> Len(key), val |-> StringVal(key)]

\* trie.erase(trie.find("abd")) on the trie of the six strings has just run
ErasedAbd == DOMAIN contents = StringKeys /\ DOMAIN contents' # StringKeys

\* C6 as stated: erasing "abd" from the trie of the six strings leaves the
\* iterator at ("abda", 64), and the iteration from begin() then yields
\* "ab", "aBCDE", "abc", "abda", "acde".
C6_StringEraseAsStated ==
    [][ErasedAbd =>
           /\ iter' # end
           /\ deref(nodes', m_items', freed', iter') = StringItem(abda)
           /\ Yields(nodes', m_items', freed', Traversal(nodes'))
                  = <<StringItem(ab), StringItem(aBCDE), StringItem(abc),
                      StringItem(abda), StringItem(acde)>>]_vars

\* C6: erasing "abd" from the trie of the six strings leaves the iterator at
\* ("abda", 64), and the iteration from begin() then yields "aBCDE", "ab",
\* "abc", "abda", "acde": the half-byte 4 of 'B' comes before the 6 of 'b'.
C6_StringErase ==
    [][ErasedAbd =>
           /\ iter' # end
           /\ deref(nodes', m_items', freed', iter') = StringItem(abda)
           /\ Yields(nodes', m_items', freed', Traversal(nodes'))
                  = <<StringItem(aBCDE), StringItem(ab), StringItem(abc),
                      StringItem(abda), StringItem(acde)>>]_vars

\* a state the erase of "abd" has left: its key buffer is freed and still
\* pointed at, the iterator stands at "abda"
C6_AbdErased ==
    /\ DOMAIN contents = StringKeys \ {abd}
    /\ freed # Empty
    /\ iter # end
    /\ m_items[nodes[iter].item].key = abda

\* C7: insert(item, lower_bound(key)) of a key that is not stored throws
\* nothing, adds one item to m_items, and afterwards find returns the new
\* item for its key and every item stored before for its own.
C7_InsertAtAsInsert ==
    \A key \in AtKeys :
        Stored(m_items, key) = {} =>
            LET item == [key |-> key, val |-> ValOf(key)]
                pos  == lower_bound(nodes, m_items, freed, KeyTracing, key)
                r    == insert_pos(nodes, m_items, freed, item, pos)
                at(k) == find(r.nodes, r.items, freed, KeyTracing, k)
            IN  /\ r.thrown = ""
                /\ Cardinality(DOMAIN r.items) = Cardinality(DOMAIN m_items) + 1
                /\ at(key) # end
                /\ r.items[r.nodes[at(key)].item] = item
                /\ \A id \in DOMAIN m_items :
                       /\ at(m_items[id].key) # end
                       /\ r.nodes[at(m_items[id].key)].item = id
                       /\ r.items[id] = m_items[id]

\* C8: erase of the end iterator throws std::logic_error and leaves the
\* nodes, m_items and the iterator as they were.
C8_EraseEndThrows ==
    LET r == erase(nodes, m_items, end)
    IN  /\ r.thrown = "libtrie++: attempted erase at end iterator"
        /\ r.nodes = nodes
        /\ r.items = m_items
        /\ r.iter = end

\* a state erase(end) has thrown in, the trie holding items
C8_Thrown ==
    /\ thrown = "libtrie++: attempted erase at end iterator"
    /\ iter = end
    /\ m_items # Empty

\* C9: insert(item, pos) with a position that is a match throws
\* std::logic_error and leaves the nodes and m_items as they were.
C9_InsertAtMatchThrows ==
    \A key \in AtKeys : \A val \in Vals :
        LET pos == lower_bound(nodes, m_items, freed, KeyTracing, key)
            r   == insert_pos(nodes, m_items, freed, [key |-> key, val |-> val], pos)
        IN  pos_match(pos) =>
                /\ r.thrown = "libtrie++: insert to already occupied position"
                /\ r.nodes = nodes
                /\ r.items = m_items

\* a state insert(item, pos) has thrown in, the trie holding two items with
\* the values they were stored with
C9_Thrown ==
    /\ thrown = "libtrie++: insert to already occupied position"
    /\ Cardinality(DOMAIN m_items) = 2
    /\ \A id \in DOMAIN m_items : m_items[id].val = ValOf(m_items[id].key)

\* C10: no two items of m_items have the same key.
C10_UniqueKeys ==
    \A id, jd \in DOMAIN m_items : id # jd => m_items[id].key # m_items[jd].key

\* the nodes whose item is item id
Carriers(N, id) == {nod \in DOMAIN N : N[nod].item = id}

\* nod and the nodes above it, the root left out
RECURSIVE PathTo(_, _)
PathTo(N, nod) == IF nod = Root \/ nod = NULL THEN {} ELSE {nod} \cup PathTo(N, N[nod].parent)

\* the first qlen half-bytes of a key
Prefix(key, qlen) == [q \in 1 .. qlen |-> get_qpos(key, q - 1)]

\* C11: every item of m_items is the item of exactly one node of the tree,
\* and the item of every node that has one is in m_items.
C11_OneNodePerItem ==
    /\ \A id \in DOMAIN m_items : Cardinality(Carriers(nodes, id)) = 1
    /\ \A nod \in ItemNodes(nodes) : nodes[nod].item \in DOMAIN m_items
    /\ Cardinality(ItemNodes(nodes)) = Cardinality(DOMAIN m_items)

\* C12: a node with an item has qlen twice the length of the item's key, and
\* the key runs through the branches from the root to the node: at each
\* node on the way its half-byte at the parent's qlen is the node's br_own,
\* and it starts with the key of every item met on the way.
C12_ItemOnItsPath ==
    \A nod \in ItemNodes(nodes) :
        nodes[nod].item \in DOMAIN m_items =>
            LET key == m_items[nodes[nod].item].key
            IN  /\ nodes[nod].qlen = 2 * Len(key)
                /\ \A up \in PathTo(nodes, nod) :
                       /\ nodes[nodes[up].parent].qlen < 2 * Len(key)
                       /\ get_qpos(key, nodes[nodes[up].parent].qlen) = nodes[up].br_own
                       /\ nodes[up].item \in DOMAIN m_items =>
                              /\ nodes[up].qlen <= 2 * Len(key)
                              /\ Nibbles(m_items[nodes[up].item].key)
                                     = Prefix(key, nodes[up].qlen)

\* C13: a node other than the root that has no item has at least two sons.
C13_NoIdleInterim ==
    \A nod \in DOMAIN nodes \ {Root} :
        nodes[nod].item = items_end => Cardinality(DOMAIN nodes[nod].branches) >= 2

\* C14: br_1st and br_last of a node with sons are the least and the
\* greatest index of a branch that holds a node; br_1st > br_last in a node
\* without sons.
C14_BranchBounds ==
    \A nod \in DOMAIN nodes :
        LET held == DOMAIN nodes[nod].branches
        IN  IF held = {} THEN nodes[nod].br_1st > nodes[nod].br_last
            ELSE /\ nodes[nod].br_1st \in held
                 /\ nodes[nod].br_last \in held
                 /\ \A ix \in held : nodes[nod].br_1st <= ix /\ ix <= nodes[nod].br_last

\* an erase has emptied a branch of a node that keeps two sons or more
C14_Rescanned ==
    /\ DOMAIN freed # {}
    /\ \E nod \in DOMAIN nodes :
          /\ Cardinality(DOMAIN nodes[nod].branches) >= 2
          /\ nodes[nod].br_1st < nodes[nod].br_last
          /\ \E ix \in nodes[nod].br_1st .. nodes[nod].br_last :
                ix \notin DOMAIN nodes[nod].branches

\* C15: a node other than the root is the branch br_own of its parent and
\* of no other branch, and the half-byte of its key at the parent's qlen is
\* br_own.
C15_OwnBranch ==
    \A nod \in DOMAIN nodes \ {Root} :
        LET parent == nodes[nod].parent
        IN  /\ parent \in DOMAIN nodes
            /\ Branch(nodes[parent], nodes[nod].br_own) = nod
            /\ \A p \in DOMAIN nodes : \A ix \in DOMAIN nodes[p].branches :
                   nodes[p].branches[ix] = nod => p = parent /\ ix = nodes[nod].br_own
            /\ get_qpos_ptr(KeyMem(m_items, freed), nodes[nod].key, nodes[parent].qlen)
                   = nodes[nod].br_own

\* C16: the qlen of a node other than the root is greater than the qlen of
\* its parent.
C16_QlenGrows ==
    \A nod \in DOMAIN nodes \ {Root} : nodes[nod].qlen > nodes[nodes[nod].parent].qlen

\* the root is in the heap with qlen 0 and no parent
RootInPlace ==
    /\ Root \in DOMAIN nodes
    /\ nodes[Root].qlen = 0
    /\ nodes[Root].parent = NULL

C18_EmptyAfterErase ==
    m_items = Empty =>
        /\ DOMAIN nodes = {Root}
        /\ DOMAIN nodes[Root].branches = {}
        /\ nodes[Root].br_1st = 1
        /\ nodes[Root].br_last = 0
        /\ nodes[Root].item = items_end
        /\ begin(nodes) = end

\* the last item stored has been erased: no item is left, and the key of an
\* erased item is still pointed at
C18_AllErased == m_items = Empty /\ DOMAIN freed # {}

\* C19: an insert that throws std::bad_alloc leaves the heap and the item
\* list as they were before the call.
C19_NoMemoryKeepsTrie ==
    [][thrown' = "std::bad_alloc" => nodes' = nodes /\ m_items' = m_items]_vars

\* the slobby find of a stored key ends at the item of another stored key
Collision ==
    \E key \in DOMAIN contents :
        LET it == find(nodes, m_items, freed, TRIE_KEY_TRACING_SLOBBY, key)
        IN  /\ it # end
            /\ nodes[it].item \in DOMAIN m_items
            /\ m_items[nodes[it].item].key # key

\* C20: in the slobby trie, while no two stored keys lead to the same leaf,
\* find of a stored key returns what the strict find returns, and that is an
\* iterator to the item of the key.
C20_SlobbyFindsStored ==
    KeyTracing = TRIE_KEY_TRACING_SLOBBY /\ ~Collision =>
        \A key \in DOMAIN contents :
            LET it == find(nodes, m_items, freed, KeyTracing, key)
            IN  /\ it = find(nodes, m_items, freed, TRIE_KEY_TRACING_STRICT, key)
                /\ it # end
                /\ deref(nodes, m_items, freed, it)
                       = [key |-> key, len |-> Len(key), val |-> contents[key]]

\* the first half of C20 alone: the slobby find of a stored key returns what
\* the strict find returns
C20_SlobbyAsStrict ==
    KeyTracing = TRIE_KEY_TRACING_SLOBBY /\ ~Collision =>
        \A key \in DOMAIN contents :
            find(nodes, m_items, freed, KeyTracing, key)
                = find(nodes, m_items, freed, TRIE_KEY_TRACING_STRICT, key)

\* the bytes of node up's key that trace compares on the way through up
\* are the bytes of key
EdgeAgrees(up, key) ==
    \A i \in (nodes[nodes[up].parent].qlen \div 2) .. (nodes[up].qlen \div 2 - 1) :
        /\ i < Len(key)
        /\ KeyByte(KeyMem(m_items, freed), nodes[up].key, i) = ByteOf(key, i)

\* the descent along the half-bytes of key arrives at leaf by a branch step,
\* with no mismatch on the nodes above leaf
Arrives(leaf, key) ==
    /\ leaf \in DOMAIN nodes \ {Root}
    /\ is_leaf(nodes[leaf])
    /\ \A up \in PathTo(nodes, leaf) :
          LET parent == nodes[up].parent
          IN  /\ nodes[parent].qlen \div 2 < Len(key)
              /\ Branch(nodes[parent], get_qpos(key, nodes[parent].qlen)) = up
              /\ up # leaf => EdgeAgrees(up, key)

\* C21: in the slobby trie, find of a key that is not stored returns an
\* iterator to the leaf the descent along the key arrives at, which yields
\* the key, the length and the value of the item of that leaf, and it
\* returns end when the descent arrives at no leaf.
C21_SlobbyLeaf ==
    KeyTracing = TRIE_KEY_TRACING_SLOBBY =>
        \A key \in LookupKeys \ DOMAIN contents :
            LET it == find(nodes, m_items, freed, KeyTracing, key)
                at == {leaf \in DOMAIN nodes : Arrives(leaf, key)}
            IN  IF at = {} THEN it = end
                ELSE /\ at = {it}
                     /\ nodes[it].item \in DOMAIN m_items
                     /\ LET item == m_items[nodes[it].item]
                        IN  deref(nodes, m_items, freed, it)
                                = [key |-> item.key, len |-> Len(item.key),
                                   val |-> item.val]

\* find of a key that is not stored has returned an iterator in the slobby
\* trie
C21_FalseHit ==
    /\ KeyTracing = TRIE_KEY_TRACING_SLOBBY
    /\ iter # end
    /\ Cardinality(DOMAIN m_items) >= 2
    /\ \E key \in SlobbyKeys \ DOMAIN contents :
          /\ iter = find(nodes, m_items, freed, KeyTracing, key)
          /\ m_items[nodes[iter].item].key # key

\* the values of the hex digits of a line of the dump, the brackets and what
\* they hold removed
Digits(line) ==
    LET hex == SelectSeq(line, LAMBDA c : c.ch = "hex")
    IN  [i \in 1 .. Len(hex) |-> hex[i].v]

\* the bracket groups of a line of the dump: for each, the number of hex
\* digits before it and the text it holds, << >> for none
Groups(line) ==
    LET at == {i \in 1 .. Len(line) : line[i].ch = "["}
        before(i) == Cardinality({j \in 1 .. i : line[j].ch = "hex"})
        held(i) == IF line[i + 1].ch = "item" THEN <<line[i + 1].v>> ELSE << >>
    IN  {<<before(i), held(i)>> : i \in at}

\* the nodes without sons
Leaves == {nod \in DOMAIN nodes : DOMAIN nodes[nod].branches = {}}

\* the line of the dump that C22 describes for a leaf: the half-bytes of
\* the key of its item, and a bracket group for the root and for each node
\* on the path, at the qlen of the node, with the value of its item
LineOf(leaf) ==
    <<IF nodes[leaf].item \in DOMAIN m_items
      THEN Nibbles(m_items[nodes[leaf].item].key) ELSE << >>,
      {<<nodes[nod].qlen,
         IF nodes[nod].item \in DOMAIN m_items
         THEN <<m_items[nodes[nod].item].val>> ELSE << >> >>
       : nod \in PathTo(nodes, leaf) \cup {Root}}>>

\* C22: the path dump has one line for each node without sons; without its
\* bracket groups a line is the half-bytes of the key of the leaf, and it
\* has one bracket group for each node on the path, the root included,
\* that holds the value of the item of the node or nothing.
C22_PathDump ==
    LET out == paths(nodes, m_items, freed)
    IN  /\ Len(out) = Cardinality(Leaves)
        /\ {<<Digits(out[i]), Groups(out[i])>> : i \in 1 .. Len(out)}
               = {LineOf(leaf) : leaf \in Leaves}
        /\ \A i \in 1 .. Len(out) :
               Cardinality(Groups(out[i]))
                   = Cardinality({j \in 1 .. Len(out[i]) : out[i][j].ch = "["})
        /\ m_items = Empty => out = <<<<Opening, Closing>>>>

\* C23: the key pointer of a node other than the root points at the key of
\* an item of m_items: of the item of the node when it has one, and of the
\* item of a node below it when it has none.
C23_KeysOfLiveItems ==
    \A nod \in DOMAIN nodes \ {Root} :
        /\ nodes[nod].key \in DOMAIN m_items
        /\ IF nodes[nod].item # items_end
           THEN nodes[nod].key = nodes[nod].item
           ELSE \E below \in Owned(nodes, nod) \ {nod} :
                    nodes[below].item = nodes[nod].key

\* the half-bytes on the way from the root to nod: the first qlen half-bytes
\* of the keys of the items in and below nod
Along(nod) ==
    {Prefix(m_items[nodes[below].item].key, nodes[nod].qlen) :
        below \in {b \in Owned(nodes, nod) : nodes[b].item \in DOMAIN m_items}}

\* the first m half-bytes of key lie on the way from the root to a node
Lies(key, m) ==
    \/ m = 0
    \/ \E nod \in DOMAIN nodes : \E way \in Along(nod) :
           /\ m <= Len(way)
           /\ \A q \in 1 .. m : way[q] = get_qpos(key, q - 1)

\* the length of the longest prefix of key that lies on a way from the root
Matched(key) ==
    CHOOSE m \in 0 .. 2 * Len(key) :
        /\ Lies(key, m)
        /\ \A n \in m + 1 .. 2 * Len(key) : ~Lies(key, n)

\* the nodes whose way from the root is a prefix of key of at most m
\* half-bytes
OnWay(key, m) ==
    {Root} \cup
    {nod \in DOMAIN nodes :
        /\ nodes[nod].qlen <= m
        /\ Prefix(key, nodes[nod].qlen) \in Along(nod)}

\* C24: in strict mode lower_bound returns the length of the longest prefix
\* of the key that lies on a way from the root, the deepest node on that
\* way whose qlen is at most that length, and the flag that tells that the
\* whole key was matched at a node that has an item.
C24_LowerBound ==
    KeyTracing = TRIE_KEY_TRACING_STRICT =>
        \A key \in LookupKeys :
            LET pos == lower_bound(nodes, m_items, freed, KeyTracing, key)
                m   == Matched(key)
                nod == pos_node(pos)
            IN  /\ pos_qlen(pos) = m
                /\ nod \in OnWay(key, m)
                /\ \A other \in OnWay(key, m) : nodes[other].qlen <= nodes[nod].qlen
                /\ pos_match(pos) <=> /\ m = 2 * Len(key)
                                      /\ nodes[nod].qlen = m
                                      /\ nodes[nod].item # items_end

\* the walk of trace along key comes to stand at nod: every node on the way
\* is the branch of its parent for the half-byte of key at the parent's
\* qlen, the bytes compared on the way are those of key, and key has a byte
\* at the qlen of nod
StandsAt(nod, key) ==
    /\ nod \in DOMAIN nodes \ {Root}
    /\ nodes[nod].qlen \div 2 < Len(key)
    /\ \A up \in PathTo(nodes, nod) :
          /\ Branch(nodes[nodes[up].parent], get_qpos(key, nodes[nodes[up].parent].qlen)) = up
          /\ EdgeAgrees(up, key)

\* nod has an odd qlen 2i + 1 and its parent a qlen below 2i
OddAmidEdge(nod) ==
    /\ nod \in DOMAIN nodes \ {Root}
    /\ nodes[nod].qlen % 2 = 1
    /\ nodes[nodes[nod].parent].qlen < nodes[nod].qlen - 1

\* the high half of byte i of key is not that of byte i of the key of nod,
\* for the qlen 2i + 1 of nod
HighDiffers(nod, key) ==
    LET i == nodes[nod].qlen \div 2
    IN  Hi(ByteOf(key, i)) # Hi(KeyByte(KeyMem(m_items, freed), nodes[nod].key, i))

\* C25: when the walk stands at a node of odd qlen 2i + 1 whose parent has a
\* qlen below 2i, and the high half of byte i of the key differs from that
\* of the key of the node, the miss is at the parent of the node with qlen
\* 2i, whether or not the node has a branch for the low half; when the high
\* half agrees and there is no branch for the low half, the miss is at the
\* node with qlen 2i + 1.
C25_MissAmidByte ==
    \A key \in LookupKeys : \A nod \in DOMAIN nodes :
        OddAmidEdge(nod) /\ StandsAt(nod, key) =>
            LET i  == nodes[nod].qlen \div 2
                w  == trace(nodes, KeyMem(m_items, freed), KeyTracing, key, Len(key), FALSE)
                br == Branch(nodes[nod], Lo(ByteOf(key, i)))
            IN  /\ HighDiffers(nod, key) => w = Miss(nodes[nod].parent, 2 * i)
                /\ ~HighDiffers(nod, key) /\ br = NULL => w = Miss(nod, 2 * i + 1)

\* the walk stands at a node of odd qlen amid a byte whose high half
\* differs, and the node has a branch for the low half
C25_ForwardBranch ==
    \E key \in LookupKeys : \E nod \in DOMAIN nodes :
        /\ OddAmidEdge(nod)
        /\ StandsAt(nod, key)
        /\ HighDiffers(nod, key)
        /\ Branch(nodes[nod], Lo(ByteOf(key, nodes[nod].qlen \div 2))) # NULL

\* the node w.node at which trace misses has, for the half-byte of key at
\* its qlen, a branch to a node with a qlen beyond w.qlen, and w.qlen is
\* beyond its own: the keys part inside the edge to that branch
PartsInsideEdge(w, key) ==
    /\ w.miss
    /\ Branch(nodes[w.node], get_qpos(key, nodes[w.node].qlen)) # NULL
    /\ nodes[w.node].qlen < w.qlen
    /\ w.qlen < nodes[Branch(nodes[w.node], get_qpos(key, nodes[w.node].qlen))].qlen

\* C26: when the key of an insert parts from the stored keys inside the
\* edge from nod to its branch C, one interim node takes the place of C in
\* nod, with the qlen at which the keys part, the key pointer of C, and C as
\* its branch for the half-byte of the key of C at that qlen; when the key
\* ends there the item is put in the interim node, which has C as its only
\* son, and otherwise one leaf of qlen 2 * len is added under the interim
\* node in another branch.
C26_Split ==
    \A key \in Keys \ DOMAIN contents :
        LET M == KeyMem(m_items, freed)
            w == trace(nodes, M, KeyTracing, key, Len(key), FALSE)
        IN  PartsInsideEdge(w, key) =>
            LET nod   == w.node
                br_ix == get_qpos(key, nodes[nod].qlen)
                C     == Branch(nodes[nod], br_ix)
                slot  == get_qpos_ptr(M, nodes[C].key, w.qlen)
                r     == insert(nodes, m_items, freed, KeyTracing,
                                [key |-> key, val |-> ValOf(key)])
                I     == Branch(r.nodes[nod], br_ix)
                new   == DOMAIN r.nodes \ DOMAIN nodes
                id    == CHOOSE i \in DOMAIN r.items : i \notin DOMAIN m_items
            IN  /\ DOMAIN nodes \subseteq DOMAIN r.nodes
                /\ I \in new
                /\ r.nodes[I].parent = nod
                /\ r.nodes[I].br_own = br_ix
                /\ r.nodes[I].qlen = w.qlen
                /\ Branch(r.nodes[I], slot) = C
                /\ r.nodes[C] = [nodes[C] EXCEPT !.parent = I, !.br_own = slot]
                /\ \A other \in DOMAIN nodes \ {nod, C} : r.nodes[other] = nodes[other]
                /\ r.nodes[nod] = [nodes[nod] EXCEPT !.branches[br_ix] = I]
                /\ IF w.qlen = 2 * Len(key)
                   THEN /\ new = {I}
                        /\ r.nodes[I].item = id
                        /\ r.nodes[I].key = id
                        /\ DOMAIN r.nodes[I].branches = {slot}
                        /\ r.nodes[I].br_1st = slot
                        /\ r.nodes[I].br_last = slot
                   ELSE \E leaf \in new \ {I} :
                        /\ new = {I, leaf}
                        /\ r.nodes[I].item = items_end
                        /\ r.nodes[I].key = nodes[C].key
                        /\ DOMAIN r.nodes[I].branches = {slot, get_qpos(key, w.qlen)}
                        /\ get_qpos(key, w.qlen) # slot
                        /\ Branch(r.nodes[I], get_qpos(key, w.qlen)) = leaf
                        /\ r.nodes[leaf].qlen = 2 * Len(key)
                        /\ r.nodes[leaf].item = id
                        /\ r.nodes[leaf].parent = I
                        /\ DOMAIN r.nodes[leaf].branches = {}

\* the nodes without an item at which key ends: the root for the key of
\* length 0, and the nodes of qlen 2 * len whose way from the root is key
EndsAt(key) ==
    {nod \in DOMAIN nodes :
        /\ nodes[nod].item = items_end
        /\ nodes[nod].qlen = 2 * Len(key)
        /\ nod = Root \/ Nibbles(key) \in Along(nod)}

\* C27: an insert whose key ends at a node without an item puts the item in
\* that node: the nodes stay the same but for the item and the key pointer
\* of that node, and m_items gains the item.
C27_InstallInPlace ==
    \A key \in Keys \ DOMAIN contents : \A nod \in EndsAt(key) :
        LET item == [key |-> key, val |-> ValOf(key)]
            r    == insert(nodes, m_items, freed, KeyTracing, item)
            id   == CHOOSE i \in DOMAIN r.items : i \notin DOMAIN m_items
        IN  /\ ~r.match
            /\ r.iter = nod
            /\ DOMAIN r.items = DOMAIN m_items \cup {id}
            /\ id \notin DOMAIN m_items
            /\ r.items[id] = item
            /\ \A old \in DOMAIN m_items : r.items[old] = m_items[old]
            /\ r.nodes = [nodes EXCEPT ![nod].item = id, ![nod].key = id]

\* the branch indices from the root down to nod
RECURSIVE Way(_, _)
Way(N, nod) ==
    IF nod = Root THEN << >> ELSE Append(Way(N, N[nod].parent), N[nod].br_own)

\* the shape of the tree: of every node the root owns its way from the
\* root, its qlen, whether it has an item, the branches it has a child in,
\* the way of its parent and its branch indices
Shape(N) ==
    {[way |-> Way(N, nod), qlen |-> N[nod].qlen,
      entry |-> N[nod].item # items_end,
      sons |-> {ix \in DOMAIN N[nod].branches : N[nod].branches[ix] # NULL},
      up |-> IF nod = Root THEN << >> ELSE Way(N, N[nod].parent),
      br_own |-> N[nod].br_own, br_1st |-> N[nod].br_1st,
      br_last |-> N[nod].br_last] : nod \in Owned(N, Root)}

\* C28: the insert of a key that is not stored, followed by the erase of
\* what find gives for that key, leaves the shape of the tree as it was
\* before the insert.
C28_InsertEraseShape ==
    \A key \in Keys \ DOMAIN contents :
        LET r == insert(nodes, m_items, freed, KeyTracing,
                        [key |-> key, val |-> ValOf(key)])
            e == erase(r.nodes, r.items,
                       find(r.nodes, r.items, freed, KeyTracing, key))
        IN  /\ e.thrown = ""
            /\ Shape(e.nodes) = Shape(nodes)
            /\ e.items = m_items

\* C29: within erase the first thing that changes is the iterator, which
\* goes to where ++iter puts it in the tree as it was on entry; the item
\* leaves m_items and the nodes change only after that, the iterator stays
\* where it was put, and the last step is what erase returns with.
C29_AdvanceFirst ==
    \A it \in ItemNodes(nodes) :
        LET s == erase_steps(nodes, m_items, it)
            r == erase(nodes, m_items, it)
        IN  /\ s[1] = [nodes |-> nodes, items |-> m_items, iter |-> it]
            /\ s[2] = [nodes |-> nodes, items |-> m_items, iter |-> next(nodes, it)]
            /\ \A i \in 3 .. Len(s) :
                   /\ s[i].iter = next(nodes, it)
                   /\ nodes[it].item \notin DOMAIN s[i].items
            /\ s[Len(s)].nodes = r.nodes
            /\ s[Len(s)].items = r.items
            /\ s[Len(s)].iter = r.iter

\* a state an erase has left, in which a further erase takes nodes off the
\* tree and has a node to move the iterator to
C29_ErasedWithSuccessor ==
    /\ freed # Empty
    /\ \E it \in ItemNodes(nodes) :
           /\ next(nodes, it) # end
           /\ DOMAIN erase(nodes, m_items, it).nodes # DOMAIN nodes

\* C30: within erase, once the item is off m_items no node of the tree
\* that had no item on entry has the key of that item as its key.
C30_BorrowersRepointed ==
    \A it \in ItemNodes(nodes) :
        LET s == erase_steps(nodes, m_items, it)
        IN  \A i \in DOMAIN s :
                nodes[it].item \notin DOMAIN s[i].items =>
                    \A nod \in Owned(s[i].nodes, Root) \ {Root, it} :
                        nodes[nod].item = items_end =>
                            s[i].nodes[nod].key # nodes[it].item

\* C30 for the last step alone: as erase returns
C30_AtReturn ==
    \A it \in ItemNodes(nodes) :
        LET s == erase_steps(nodes, m_items, it)
        IN  \A nod \in Owned(s[Len(s)].nodes, Root) \ {Root, it} :
                nodes[nod].item = items_end =>
                    s[Len(s)].nodes[nod].key # nodes[it].item

\* the nodes in the branches of a node
Sons(N, nod) == {N[nod].branches[ix] : ix \in DOMAIN N[nod].branches} \ {NULL}

\* the nodes an erase that leaves the heap N deletes
Freed(N) == DOMAIN nodes \ DOMAIN N

\* the node erase(it) splices out on its way to the heap N: a deleted node
\* that is not the leaf of the erased item
Spliced(N, it) == {nod \in Freed(N) : ~(nod = it /\ is_leaf(nodes[it]))}

\* C31: erase deletes at most two nodes and creates none: the node of the
\* item when it is a leaf other than the root, and at most one node other
\* than the root that is left with no item and one son.  Every node with
\* another item stays, with its item; the son that takes the place of a
\* deleted node keeps its address, item, qlen, branches and the nodes below
\* it as they were.
C31_EraseFrees ==
    \A it \in ItemNodes(nodes) :
        LET r == erase(nodes, m_items, it)
        IN  /\ DOMAIN r.nodes \subseteq DOMAIN nodes
            /\ Cardinality(Freed(r.nodes)) <= 2
            /\ Root \notin Freed(r.nodes)
            /\ (is_leaf(nodes[it]) /\ it # Root) => it \in Freed(r.nodes)
            /\ Cardinality(Spliced(r.nodes, it)) <= 1
            /\ \A nod \in Spliced(r.nodes, it) :
                   /\ nod = it \/ nodes[nod].item = items_end
                   /\ Cardinality(Sons(nodes, nod) \ Freed(r.nodes)) = 1
                   /\ \A son \in Sons(nodes, nod) \ Freed(r.nodes) :
                          /\ son \in DOMAIN r.nodes
                          /\ r.nodes[son] = [nodes[son] EXCEPT
                                                !.parent = nodes[nod].parent,
                                                !.br_own = nodes[nod].br_own]
                          /\ Branch(r.nodes[nodes[nod].parent], nodes[nod].br_own) = son
                          /\ \A below \in Owned(nodes, son) \ {son} :
                                 /\ below \in DOMAIN r.nodes
                                 /\ r.nodes[below] = nodes[below]
            /\ \A nod \in ItemNodes(nodes) \ {it} :
                   /\ nod \in DOMAIN r.nodes
                   /\ r.nodes[nod].item = nodes[nod].item
                   /\ r.items[r.nodes[nod].item] = m_items[nodes[nod].item]

\* a state in which an erase deletes a leaf and the node above it, and the
\* son that moves up has an item and a son of its own
C31_TwoFreed ==
    \E it \in ItemNodes(nodes) : \E r \in {erase(nodes, m_items, it)} :
        /\ Cardinality(Freed(r.nodes)) = 2
        /\ \E nod \in Freed(r.nodes) \ {it} : \E son \in Sons(nodes, nod) \ {it} :
               /\ nodes[son].item # items_end
               /\ Sons(nodes, son) # {}

\* C32: begin() is end() exactly when m_items is empty; otherwise begin()
\* stands at the item whose key is the least of the stored keys in the
\* order of the half-bytes, which is the item of the root when the key of
\* length 0 is stored.
C32_BeginAtLeast ==
    /\ begin(nodes) = end <=> m_items = Empty
    /\ begin(nodes) # end =>
           /\ nodes[begin(nodes)].item \in DOMAIN m_items
           /\ \A id \in DOMAIN m_items \ {nodes[begin(nodes)].item} :
                  KeyLess(m_items[nodes[begin(nodes)].item].key, m_items[id].key)
    /\ Stored(m_items, << >>) # {} =>
           /\ begin(nodes) = Root
           /\ nodes[Root].item \in Stored(m_items, << >>)

\* the leaves with an item whose key has the length of key and its
\* half-bytes up to the branch of the leaf, and is another key
EdgeTwins(key) ==
    {leaf \in DOMAIN nodes \ {Root} :
        /\ is_leaf(nodes[leaf])
        /\ nodes[leaf].item \in DOMAIN m_items
        /\ LET own == m_items[nodes[leaf].item].key
               upto == nodes[nodes[leaf].parent].qlen + 1
           IN  /\ own # key
               /\ Len(own) = Len(key)
               /\ upto <= 2 * Len(key)
               /\ Prefix(own, upto) = Prefix(key, upto)}

\* C33: in the slobby trie insert and lower_bound give what they give with
\* strict tracing, so the tree and the iteration are those of the strict
\* trie; the insert of a key that is not stored and differs from the key of
\* a leaf only past the branch of the leaf adds an item of its own and
\* leaves the leaf its item.
C33_SlobbyOnlyInFind ==
    KeyTracing = TRIE_KEY_TRACING_SLOBBY =>
        /\ \A key \in SlobbyKeys :
               /\ insert(nodes, m_items, freed, KeyTracing,
                         [key |-> key, val |-> ValOf(key)])
                      = insert(nodes, m_items, freed, TRIE_KEY_TRACING_STRICT,
                               [key |-> key, val |-> ValOf(key)])
               /\ lower_bound(nodes, m_items, freed, KeyTracing, key)
                      = lower_bound(nodes, m_items, freed, TRIE_KEY_TRACING_STRICT, key)
        /\ \A key \in SlobbyKeys \ DOMAIN contents : \A leaf \in EdgeTwins(key) :
               LET r == insert(nodes, m_items, freed, KeyTracing,
                               [key |-> key, val |-> ValOf(key)])
               IN  /\ ~r.match
                   /\ Cardinality(DOMAIN r.items) = Cardinality(DOMAIN m_items) + 1
                   /\ r.iter # end
                   /\ r.iter # leaf
                   /\ r.nodes[r.iter].item \in DOMAIN r.items \ DOMAIN m_items
                   /\ r.items[r.nodes[r.iter].item].key = key
                   /\ leaf \in Owned(r.nodes, Root)
                   /\ r.nodes[leaf].item = nodes[leaf].item
                   /\ r.items[nodes[leaf].item] = m_items[nodes[leaf].item]

\* a state of the slobby trie in which find gives the leaf of another key
\* for a key that is not stored and differs from it past the branch
C33_TwinFound ==
    /\ KeyTracing = TRIE_KEY_TRACING_SLOBBY
    /\ \E key \in SlobbyKeys \ DOMAIN contents : \E leaf \in EdgeTwins(key) :
           find(nodes, m_items, freed, KeyTracing, key) = leaf

\* the greater of two numbers
Max(a, b) == IF a > b THEN a ELSE b

RECURSIVE trace_byte_cost(_, _, _, _, _, _, _, _, _, _)
RECURSIVE trace_branch_cost(_, _, _, _, _, _, _, _, _, _, _)

\* trace_branch with the loops counted: n is the number of passes of the
\* branching while loop made for byte i, most the greatest such number for
\* the bytes before; the result is the number of passes of the for loop
\* and the greatest number of passes of the while loop for one byte
trace_branch_cost(N, M, tr, key, len, slob, nod, qlen, i, n, most) ==
    LET byte == ByteOf(key, i)
    IN  IF qlen \in {0, 1}
        THEN LET br == Branch(N[nod], IF qlen # 0 THEN Lo(byte) ELSE Hi(byte))
             IN  IF br = NULL
                 THEN [bytes |-> i + 1, branchings |-> Max(most, n + 1)]
                 ELSE IF tr = TRIE_KEY_TRACING_SLOBBY /\ slob /\ is_leaf(N[br])
                      THEN [bytes |-> i + 1, branchings |-> Max(most, n + 1)]
                      ELSE trace_branch_cost(N, M, tr, key, len, slob, br,
                                             N[br].qlen - 2 * i, i, n + 1, most)
        ELSE IF KeyByte(M, N[nod].key, i) # byte
             THEN [bytes |-> i + 1, branchings |-> Max(most, n)]
             ELSE trace_byte_cost(N, M, tr, key, len, slob, nod, qlen - 2, i + 1,
                                  Max(most, n))

\* trace_byte with the loops counted
trace_byte_cost(N, M, tr, key, len, slob, nod, qlen, i, most) ==
    IF i < len
    THEN trace_branch_cost(N, M, tr, key, len, slob, nod, qlen, i, 0, most)
    ELSE [bytes |-> i, branchings |-> most]

\* trace with the loops counted
trace_cost(N, M, tr, key, len, slob) ==
    trace_byte_cost(N, M, tr, key, len, slob, Root, 0, 0, 0)

RECURSIVE next_descend_cost(_, _, _, _)
RECURSIVE next_ascend_cost(_, _, _)

\* next_descend with the moves of m_node counted in n
next_descend_cost(N, m_node, br_ix, n) ==
    IF br_ix <= N[m_node].br_last
    THEN LET nod == Branch(N[m_node], br_ix)
         IN  IF nod # NULL
             THEN IF N[nod].item # items_end THEN n + 1
                  ELSE next_descend_cost(N, nod, N[nod].br_1st, n + 1)
             ELSE next_descend_cost(N, m_node, br_ix + 1, n)
    ELSE next_ascend_cost(N, m_node, n)

\* next_ascend with the moves of m_node counted in n
next_ascend_cost(N, m_node, n) ==
    LET br_ix  == N[m_node].br_own + 1
        parent == N[m_node].parent
    IN  IF parent = NULL THEN n + 1
        ELSE IF br_ix > N[parent].br_last THEN next_ascend_cost(N, parent, n + 1)
        ELSE next_descend_cost(N, parent, br_ix, n + 1)

\* iterator_base::next(): the number of times it moves m_node
next_cost(N, m_node) == next_descend_cost(N, m_node, N[m_node].br_1st, 0)

\* the invariants of the tree between operations: qlen grows downwards, a
\* node is the branch br_own of its parent, an item is on the path of its
\* key, br_1st and br_last bound the branches, no node without an item has
\* less than two sons, no two items share a key, and every item has one node
WellFormed ==
    /\ C16_QlenGrows
    /\ C15_OwnBranch
    /\ C12_ItemOnItsPath
    /\ C14_BranchBounds
    /\ C13_NoIdleInterim
    /\ C10_UniqueKeys
    /\ C11_OneNodePerItem

\* C34: on a trie that keeps its invariants, trace passes its for loop at
\* most len times and its branching loop at most twice for a byte; next()
\* from a node with an item ends at a node with an item or at end, having
\* moved at most once down and once up each node; and ++ from begin()
\* reaches end() after as many steps as there are items.
C34_RunsToCompletion ==
    WellFormed =>
        /\ \A key \in LookupKeys : \A slob \in BOOLEAN :
               LET c == trace_cost(nodes, KeyMem(m_items, freed), KeyTracing,
                                   key, Len(key), slob)
               IN  c.bytes <= Len(key) /\ c.branchings <= 2
        /\ \A it \in ItemNodes(nodes) \cup {Root} :
               /\ next_cost(nodes, it) <= 2 * Cardinality(DOMAIN nodes)
               /\ next(nodes, it) = end \/ next(nodes, it) \in ItemNodes(nodes)
        /\ Len(Traversal(nodes)) = Cardinality(DOMAIN m_items)
        /\ \A i \in DOMAIN Traversal(nodes) : Traversal(nodes)[i] \in ItemNodes(nodes)

\* a trie that keeps its invariants after an erase that left a key pointer
\* behind, in which a trace branches twice for a byte and the iteration
\* passes three items or more
C34_TwoBranchings ==
    /\ WellFormed
    /\ freed # Empty
    /\ Cardinality(DOMAIN m_items) >= 3
    /\ \E key \in LookupKeys :
           trace_cost(nodes, KeyMem(m_items, freed), KeyTracing,
                      key, Len(key), FALSE).branchings = 2

\* the leaves erase removes from a parent that keeps a son: the leaves with
\* an item, other than the root, whose parent has br_1st # br_last
Rescans(first) ==
    {it \in ItemNodes(nodes) \ {Root} :
        /\ is_leaf(nodes[it])
        /\ ~has_only_son(nodes[nodes[it].parent])
        /\ IF first THEN nodes[nodes[it].parent].br_1st = nodes[it].br_own
           ELSE /\ nodes[nodes[it].parent].br_1st # nodes[it].br_own
                /\ nodes[nodes[it].parent].br_last = nodes[it].br_own}

\* the branches of the parent of leaf it once the branch of it is reset
Emptied(it) ==
    SetBranch(nodes[nodes[it].parent].branches, nodes[it].br_own, NULL)

\* C35: the rescans of erase for br_1st and br_last read branches 0 .. 15
\* only and stop at a branch that holds a node: upwards from the emptied
\* branch + 1, downwards from the emptied branch - 1.
C35_RescanInBounds ==
    /\ \A it \in Rescans(TRUE) :
           LET ix == ScanUp(Emptied(it), nodes[it].br_own + 1)
           IN  /\ nodes[it].br_own + 1 \in 0 .. BranchesCnt - 1
               /\ ix \in 0 .. BranchesCnt - 1
               /\ Branch(nodes[nodes[it].parent], ix) \notin {NULL, it}
               /\ erase_leaf(nodes, it).nodes[nodes[it].parent].br_1st = ix
    /\ \A it \in Rescans(FALSE) :
           LET ix == ScanDown(Emptied(it), nodes[it].br_own - 1)
           IN  /\ nodes[it].br_own - 1 \in 0 .. BranchesCnt - 1
               /\ ix \in 0 .. BranchesCnt - 1
               /\ Branch(nodes[nodes[it].parent], ix) \notin {NULL, it}
               /\ erase_leaf(nodes, it).nodes[nodes[it].parent].br_last = ix

\* a state in which the erase of a first son and the erase of a last son
\* each pass an empty branch on the rescan
C35_RescanPastEmpty ==
    /\ \E it \in Rescans(TRUE) :
           ScanUp(Emptied(it), nodes[it].br_own + 1) > nodes[it].br_own + 1
    /\ \E it \in Rescans(FALSE) :
           ScanDown(Emptied(it), nodes[it].br_own - 1) < nodes[it].br_own - 1

====
